---- MODULE Spec2Model ----
(***************************************************************************)
(* A model of the generic Endpoint / Middleware / HTTP-adapter program of  *)
(* src/main.go: the string service, the endpoints built over it, the       *)
(* Chain combinator with the annotate and logIt middleware, and the        *)
(* handler registered by createHttpHandler.                                *)
(*                                                                         *)
(* Go strings are byte sequences: every string of the program (inputs,     *)
(* error messages, response bodies) is a sequence of bytes 0..255 here.    *)
(***************************************************************************)
EXTENDS Integers, Sequences, FiniteSets, TLC

VARIABLES
    outer,      \* first argument of Chain (main.go:63)
    others,     \* variadic arguments of Chain (main.go:63)
    built,      \* whether the endpoints have been constructed
    endpoints,  \* route -> the Endpoint value registered for it
    h,          \* one record per handler invocation (request goroutine)
    svcIn,      \* the characters of the input of a direct service call
    svcOp,      \* the operation applied by the direct call
    svcOut      \* its result

vars == <<outer, others, built, endpoints, h, svcIn, svcOp, svcOut>>

(***************************************************************************)
(* Bounds of the model.                                                    *)
(***************************************************************************)
MaxLen == 2         \* characters in an input string of a direct service call
MaxOthers == 2      \* middleware passed to Chain after the first
MaxRequests == 2    \* requests handled concurrently by the server

(***************************************************************************)
(* Strings.                                                                *)
(***************************************************************************)
Nil == <<>>         \* the nil error (an error is its message's bytes)

RECURSIVE Flatten(_)
Flatten(ss) == IF ss = <<>> THEN <<>> ELSE Head(ss) \o Flatten(Tail(ss))

\* The characters drawn for inputs, each as its UTF-8 encoding:
\* 'a', 'K', '1' and the two-byte U+00E9.
Chars == { <<97>>, <<75>>, <<49>>, <<195, 169>> }

RECURSIVE SeqsUpTo(_, _)
SeqsUpTo(S, n) ==
    IF n = 0 THEN { <<>> }
    ELSE LET shorter == SeqsUpTo(S, n - 1)
         IN  shorter \cup { Append(s, c) : s \in shorter, c \in S }

Texts == SeqsUpTo(Chars, MaxLen)

\* unicode.ToUpper on the code points below U+0800.
UnicodeToUpper(r) ==
    IF r >= 97 /\ r =< 122 THEN r - 32
    ELSE IF (r >= 224 /\ r =< 246) \/ (r >= 248 /\ r =< 254) THEN r - 32
    ELSE IF r = 255 THEN 376
    ELSE IF r = 181 THEN 924
    ELSE r

\* utf8.DecodeRuneInString on one- and two-byte sequences: <<rune, width>>;
\* anything else is RuneError (U+FFFD) of width 1.
DecodeRune(b) ==
    IF b[1] < 128 THEN <<b[1], 1>>
    ELSE IF b[1] >= 194 /\ b[1] =< 223 /\ Len(b) >= 2 /\ b[2] >= 128 /\ b[2] =< 191
         THEN <<(b[1] - 192) * 64 + (b[2] - 128), 2>>
    ELSE <<65533, 1>>

EncodeRune(r) ==
    IF r < 128 THEN <<r>>
    ELSE IF r < 2048 THEN <<192 + (r \div 64), 128 + (r % 64)>>
    ELSE <<239, 191, 189>>

RECURSIVE MapToUpper(_)
MapToUpper(b) ==
    IF b = <<>> THEN <<>>
    ELSE LET d == DecodeRune(b)
         IN  EncodeRune(UnicodeToUpper(d[1])) \o MapToUpper(SubSeq(b, d[2] + 1, Len(b)))

ToUpperAsciiOnly(b) ==
    [i \in 1..Len(b) |-> IF b[i] >= 97 /\ b[i] =< 122 THEN b[i] - 32 ELSE b[i]]

\* strings.ToUpper: a byte-wise fast path for ASCII strings, else a
\* rune-wise map of unicode.ToUpper.
ToUpper(b) ==
    IF \A i \in 1..Len(b) : b[i] < 128
    THEN [i \in 1..Len(b) |-> IF b[i] >= 97 /\ b[i] =< 122 THEN b[i] - 32 ELSE b[i]]
    ELSE MapToUpper(b)

(***************************************************************************)
(* The service (main.go:18-32).                                            *)
(***************************************************************************)
ErrEmpty == <<69, 109, 112, 116, 121, 32, 115, 116, 114, 105, 110, 103>>  \* "Empty string"

Uppercase(s) ==
    IF s = <<>> THEN [v |-> <<>>, err |-> ErrEmpty]
    ELSE [v |-> ToUpper(s), err |-> Nil]

CountMemo(s) == Len(s) + Cardinality({ r \in DOMAIN h : h[r].calls.ep > 0 })

Count(s) == Len(s)

(***************************************************************************)
(* Requests and responses (main.go:34-57).  A response is a tagged record: *)
(* uppercaseResponse uses V and Err, countResponse uses N.                 *)
(***************************************************************************)
UppercaseResponse(v, e) == [kind |-> "uppercase", V |-> v, Err |-> e, N |-> 0]
CountResponse(n) == [kind |-> "count", V |-> <<>>, Err |-> <<>>, N |-> n]

UppercaseEndpointPropagate(request) ==
    LET r == Uppercase(request.S)
    IN  [resp |-> UppercaseResponse(r.v, <<>>), err |-> r.err]

\* The endpoint returned by makeUppercaseEndpoint, applied to a request.
UppercaseEndpoint(request) ==
    LET r == Uppercase(request.S)
    IN  IF r.err # Nil
        THEN [resp |-> UppercaseResponse(r.v, r.err), err |-> Nil]
        ELSE [resp |-> UppercaseResponse(r.v, <<>>), err |-> Nil]

\* The endpoint returned by makeCountEndpoint, applied to a request.
CountEndpoint(request) ==
    [resp |-> CountResponse(Count(request.S)), err |-> Nil]

(***************************************************************************)
(* Endpoints and middleware (main.go:59-89).  An Endpoint value is the     *)
(* closure structure the program builds: the innermost endpoint (base) and *)
(* the middleware closures wrapped around it, outermost first.             *)
(***************************************************************************)
Annotate(label) == [kind |-> "annotate", label |-> label]
LogIt == [kind |-> "logIt", label |-> ""]
\* A middleware that returns an error without calling next (an input of
\* Chain, not part of the program).
Deny == [kind |-> "deny", label |-> ""]

Labels == {"first", "second", "third"}
Middlewares == { Annotate(l) : l \in Labels } \cup {LogIt, Deny}

BaseEndpoint(b) == [base |-> b, wraps |-> <<>>]

\* m(next): the endpoint closure a middleware returns, capturing next.
ApplyMw(m, next) == [next EXCEPT !.wraps = <<m>> \o @]

RECURSIVE ChainLoopForward(_, _, _)
ChainLoopForward(ms, i, next) ==
    IF i > Len(ms) THEN next ELSE ChainLoopForward(ms, i + 1, ApplyMw(ms[i], next))

ChainForward(o, ms, next) == ApplyMw(o, ChainLoopForward(ms, 1, next))

RECURSIVE ChainLoopSkipFirst(_, _, _)
ChainLoopSkipFirst(ms, i, next) ==
    IF i < 2 THEN next ELSE ChainLoopSkipFirst(ms, i - 1, ApplyMw(ms[i], next))

\* The loop of Chain: i runs from the last of others down to the first.
RECURSIVE ChainLoop(_, _, _)
ChainLoop(ms, i, next) ==
    IF i < 1 THEN next ELSE ChainLoop(ms, i - 1, ApplyMw(ms[i], next))

\* Chain(outer, others...)(next)
Chain(o, ms, next) == ApplyMw(o, ChainLoop(ms, Len(ms), next))

ErrDenied == <<100, 101, 110, 105, 101, 100>>                 \* "denied"
ErrFailed == <<101, 110, 100, 112, 111, 105, 110, 116, 32, 102, 97, 105, 108, 101, 100>>  \* "endpoint failed"

NoResponse == [kind |-> "none", V |-> <<>>, Err |-> <<>>, N |-> 0]

\* The zero value of the Resp type of an endpoint over base b.
ZeroResp(b) == IF b = "count" THEN CountResponse(0) ELSE UppercaseResponse(<<>>, <<>>)

\* The innermost endpoint applied to a request.  "failing" is an endpoint
\* that returns a non-nil error (an input of Chain and createHttpHandler).
BaseApply(b, request) ==
    CASE b = "uppercase" -> UppercaseEndpoint(request)
      [] b = "count"     -> CountEndpoint(request)
      [] b = "failing"   -> [resp |-> ZeroResp(b), err |-> ErrFailed]

Ev(kind, label, arg) == [ev |-> kind, label |-> label, arg |-> arg]

(***************************************************************************)
(* Transport: decode, encode (main.go:112-134).                            *)
(***************************************************************************)
ErrUnexpectedEOF == <<117, 110, 101, 120, 112, 101, 99, 116, 101, 100, 32, 69, 79, 70>>  \* "unexpected EOF"
ErrWrite == <<119, 114, 105, 116, 101, 32, 102, 97, 105, 108, 101, 100>>  \* "write failed"

\* Request bodies on the wire: {"s":""}, {"s":"aé"} and a truncated one.
Wires == { [kind |-> "json", s |-> <<>>],
           [kind |-> "json", s |-> <<97, 195, 169>>],
           [kind |-> "malformed", s |-> <<>>] }

\* decodeUppercaseRequest / decodeCountRequest
DecodeRequest(wire) ==
    IF wire.kind = "json" THEN [request |-> [S |-> wire.s], err |-> Nil]
    ELSE [request |-> [S |-> <<>>], err |-> ErrUnexpectedEOF]

RECURSIVE Itoa(_)
Itoa(n) == IF n < 10 THEN <<48 + n>> ELSE Itoa(n \div 10) \o <<48 + (n % 10)>>

\* A JSON string literal: quotes, with '"' and '\' escaped.
JsonString(b) ==
    <<34>> \o Flatten([i \in 1..Len(b) |->
                          IF b[i] = 34 \/ b[i] = 92 THEN <<92, b[i]>> ELSE <<b[i]>>])
           \o <<34>>

\* encodeUppercaseResponse / encodeCountResponse: json.Encoder.Encode's bytes.
EncodeResponse(resp) ==
    IF resp.kind = "count"
    THEN <<123, 34, 118, 34, 58>> \o Itoa(resp.N) \o <<125, 10>>
    ELSE <<123, 34, 118, 34, 58>> \o JsonString(resp.V)
         \o (IF resp.Err # <<>>
             THEN <<44, 34, 101, 114, 114, 34, 58>> \o JsonString(resp.Err)
             ELSE <<>>)
         \o <<125, 10>>

\* fmt.Sprintf("err: %s", err)
ErrText(err) == <<101, 114, 114, 58, 32>> \o err

\* What the response writer does with the encoder's Write: accept it all,
\* fail before taking a byte, or fail after taking a part of it.
WriterFaults == {"none", "reject", "partial"}

Accepted(f, bytes) ==
    CASE f = "none"   -> bytes
      [] f = "reject" -> <<>>
      [] OTHER        -> SubSeq(bytes, 1, Len(bytes) - 2)

(***************************************************************************)
(* One handler invocation (main.go:157-175) and the endpoint call in it.   *)
(***************************************************************************)
Slots == 1..MaxRequests

IdleH == [pc |-> "idle", route |-> "", wire |-> [kind |-> "none", s |-> <<>>],
          request |-> [S |-> <<>>], cur |-> BaseEndpoint("none"), stack |-> <<>>,
          ret |-> [resp |-> NoResponse, err |-> Nil], log |-> <<>>, body |-> <<>>,
          wfault |-> "none", calls |-> [dec |-> 0, ep |-> 0, enc |-> 0],
          decErr |-> Nil]

\* The server accepts a request and starts the handler of its route.
Receive(r) ==
    /\ built
    /\ h[r].pc = "idle"
    /\ \E rt \in DOMAIN endpoints, w \in Wires :
          h' = [h EXCEPT ![r] = [@ EXCEPT !.pc = "decode", !.route = rt, !.wire = w]]
    /\ UNCHANGED <<outer, others, built, endpoints, svcIn, svcOp, svcOut>>

HandlerDecodeNoReturn(r) ==
    /\ h[r].pc = "decode"
    /\ LET d == DecodeRequest(h[r].wire)
       IN  h' = [h EXCEPT ![r] =
                   [@ EXCEPT !.calls.dec = @ + 1, !.decErr = d.err,
                             !.request = d.request,
                             !.body = IF d.err # Nil THEN @ \o ErrText(d.err) ELSE @,
                             !.pc = "invoke"]]
    /\ UNCHANGED <<outer, others, built, endpoints, svcIn, svcOp, svcOut>>

HandlerDecodeShared(r) ==
    /\ h[r].pc = "decode"
    /\ LET d == DecodeRequest(h[r].wire)
       IN  IF d.err # Nil
           THEN h' = [h EXCEPT ![r] =
                        [@ EXCEPT !.calls.dec = @ + 1, !.decErr = d.err,
                                  !.body = @ \o ErrText(d.err), !.pc = "done"]]
           ELSE h' = [x \in DOMAIN h |->
                        IF x = r
                        THEN [h[x] EXCEPT !.calls.dec = @ + 1, !.request = d.request,
                                          !.pc = "invoke"]
                        ELSE [h[x] EXCEPT !.request = d.request]]
    /\ UNCHANGED <<outer, others, built, endpoints, svcIn, svcOp, svcOut>>

\* request, err := dec(ctx, r); on an error write "err: ..." and return.
HandlerDecode(r) ==
    /\ h[r].pc = "decode"
    /\ LET d == DecodeRequest(h[r].wire)
       IN  IF d.err # Nil
           THEN h' = [h EXCEPT ![r] =
                        [@ EXCEPT !.calls.dec = @ + 1, !.decErr = d.err,
                                  !.body = @ \o ErrText(d.err), !.pc = "done"]]
           ELSE h' = [h EXCEPT ![r] =
                        [@ EXCEPT !.calls.dec = @ + 1, !.request = d.request,
                                  !.pc = "invoke"]]
    /\ UNCHANGED <<outer, others, built, endpoints, svcIn, svcOp, svcOut>>

\* response, err := e(ctx, request): the call enters the registered endpoint.
HandlerInvoke(r) ==
    /\ h[r].pc = "invoke"
    /\ h' = [h EXCEPT ![r] =
               [@ EXCEPT !.calls.ep = @ + 1, !.cur = endpoints[h[r].route],
                         !.pc = "call"]]
    /\ UNCHANGED <<outer, others, built, endpoints, svcIn, svcOp, svcOut>>

\* annotate: fmt.Println(s, "pre"); defer fmt.Println(s, "post"); next(...)
MwAnnotatePre(r) ==
    /\ h[r].pc = "call"
    /\ h[r].cur.wraps # <<>>
    /\ Head(h[r].cur.wraps).kind = "annotate"
    /\ LET l == Head(h[r].cur.wraps).label
       IN  h' = [h EXCEPT ![r] =
                   [@ EXCEPT !.log = Append(@, Ev("pre", l, <<>>)),
                             !.stack = <<l>> \o @,
                             !.cur.wraps = Tail(@)]]
    /\ UNCHANGED <<outer, others, built, endpoints, svcIn, svcOp, svcOut>>

\* logIt: print the request's String(), then next(...)
MwLogIt(r) ==
    /\ h[r].pc = "call"
    /\ h[r].cur.wraps # <<>>
    /\ Head(h[r].cur.wraps).kind = "logIt"
    /\ h' = [h EXCEPT ![r] =
               [@ EXCEPT !.log = Append(@, Ev("req", "", h[r].request.S)),
                         !.cur.wraps = Tail(@)]]
    /\ UNCHANGED <<outer, others, built, endpoints, svcIn, svcOp, svcOut>>

\* A middleware that returns without calling next.
MwDeny(r) ==
    /\ h[r].pc = "call"
    /\ h[r].cur.wraps # <<>>
    /\ Head(h[r].cur.wraps).kind = "deny"
    /\ h' = [h EXCEPT ![r] =
               [@ EXCEPT !.ret = [resp |-> ZeroResp(h[r].cur.base), err |-> ErrDenied],
                         !.pc = "unwind"]]
    /\ UNCHANGED <<outer, others, built, endpoints, svcIn, svcOp, svcOut>>

\* The innermost endpoint runs and returns.
RunEndpoint(r) ==
    /\ h[r].pc = "call"
    /\ h[r].cur.wraps = <<>>
    /\ h' = [h EXCEPT ![r] =
               [@ EXCEPT !.ret = BaseApply(h[r].cur.base, h[r].request),
                         !.log = Append(@, Ev("run", h[r].cur.base, <<>>)),
                         !.pc = "unwind"]]
    /\ UNCHANGED <<outer, others, built, endpoints, svcIn, svcOp, svcOut>>

MwAnnotatePostNoDefer(r) ==
    /\ h[r].pc = "unwind"
    /\ h[r].stack # <<>>
    /\ h' = [h EXCEPT ![r] =
               [@ EXCEPT !.log = IF h[r].ret.err # Nil THEN @
                                 ELSE Append(@, Ev("post", Head(h[r].stack), <<>>)),
                         !.stack = Tail(@)]]
    /\ UNCHANGED <<outer, others, built, endpoints, svcIn, svcOp, svcOut>>

\* annotate's deferred fmt.Println(s, "post") runs as its endpoint returns.
MwAnnotatePost(r) ==
    /\ h[r].pc = "unwind"
    /\ h[r].stack # <<>>
    /\ h' = [h EXCEPT ![r] =
               [@ EXCEPT !.log = Append(@, Ev("post", Head(h[r].stack), <<>>)),
                         !.stack = Tail(@)]]
    /\ UNCHANGED <<outer, others, built, endpoints, svcIn, svcOp, svcOut>>

\* The endpoint has returned to the handler: on an error write "err: ..."
\* and return; else enc(ctx, w, response), and on its error write "err: ...".
HandlerRespond(r) ==
    /\ h[r].pc = "unwind"
    /\ h[r].stack = <<>>
    /\ IF h[r].ret.err # Nil
       THEN h' = [h EXCEPT ![r] =
                    [@ EXCEPT !.body = @ \o ErrText(h[r].ret.err), !.pc = "done"]]
       ELSE \E f \in WriterFaults :
               LET enc == EncodeResponse(h[r].ret.resp)
                   written == h[r].body \o Accepted(f, enc)
               IN  h' = [h EXCEPT ![r] =
                           [@ EXCEPT !.calls.enc = @ + 1, !.wfault = f,
                                     !.body = IF f = "none" THEN written
                                              ELSE written \o ErrText(ErrWrite),
                                     !.pc = "done"]]
    /\ UNCHANGED <<outer, others, built, endpoints, svcIn, svcOp, svcOut>>

Step(r) ==
    \/ HandlerDecode(r)
    \/ HandlerInvoke(r)
    \/ MwAnnotatePre(r)
    \/ MwLogIt(r)
    \/ RunEndpoint(r)
    \/ MwAnnotatePost(r)
    \/ HandlerRespond(r)

(***************************************************************************)
(* The server of main (main.go:136-152).                                   *)
(***************************************************************************)
MainOuter == Annotate("first")
MainOthers == <<Annotate("second"), Annotate("third"), LogIt>>

MainEndpoints ==
    [rt \in {"/uppercase", "/count"} |->
        IF rt = "/uppercase"
        THEN Chain(MainOuter, MainOthers, BaseEndpoint("uppercase"))
        ELSE BaseEndpoint("count")]

Init ==
    /\ outer = MainOuter
    /\ others = MainOthers
    /\ built = TRUE
    /\ endpoints = MainEndpoints
    /\ h = [r \in Slots |-> IdleH]
    /\ svcIn = <<>>
    /\ svcOp = "none"
    /\ svcOut = [v |-> <<>>, err |-> Nil, resp |-> NoResponse, n |-> 0]

Next == \E r \in Slots : Receive(r) \/ Step(r)

Spec == Init /\ [][Next]_vars

(***************************************************************************)
(* Chain and createHttpHandler over arbitrary arguments: any outer         *)
(* middleware, any list of further middleware, applied to two endpoints,   *)
(* the uppercase endpoint and one that fails.                              *)
(***************************************************************************)
ChainRoutes == {"/uppercase", "/fail"}

InnerOf(rt) ==
    CASE rt = "/uppercase" -> BaseEndpoint("uppercase")
      [] rt = "/count"     -> BaseEndpoint("count")
      [] rt = "/fail"      -> BaseEndpoint("failing")

ChainInit ==
    /\ outer \in Middlewares
    /\ others \in SeqsUpTo(Middlewares, MaxOthers)
    /\ built = FALSE
    /\ endpoints = [rt \in ChainRoutes |-> InnerOf(rt)]
    /\ h = [r \in Slots |-> IdleH]
    /\ svcIn = <<>>
    /\ svcOp = "none"
    /\ svcOut = [v |-> <<>>, err |-> Nil, resp |-> NoResponse, n |-> 0]

\* The one chained Middleware is applied to each of the endpoints.
ApplyChain ==
    /\ ~built
    /\ built' = TRUE
    /\ endpoints' = [rt \in DOMAIN endpoints |-> Chain(outer, others, endpoints[rt])]
    /\ UNCHANGED <<outer, others, h, svcIn, svcOp, svcOut>>

ChainNext == ApplyChain \/ Receive(1) \/ Step(1) \/ MwDeny(1)

ChainSpec == ChainInit /\ [][ChainNext]_vars

(***************************************************************************)
(* Direct calls of the service and of the bare endpoints.                  *)
(***************************************************************************)
SvcInit ==
    /\ outer = MainOuter
    /\ others = MainOthers
    /\ built = TRUE
    /\ endpoints = MainEndpoints
    /\ h = [r \in Slots |-> IdleH]
    /\ svcIn \in Texts
    /\ svcOp = "none"
    /\ svcOut = [v |-> <<>>, err |-> Nil, resp |-> NoResponse, n |-> 0]

CallUppercase ==
    /\ svcOp = "none"
    /\ svcOp' = "Uppercase"
    /\ LET r == Uppercase(Flatten(svcIn))
       IN  svcOut' = [svcOut EXCEPT !.v = r.v, !.err = r.err]
    /\ UNCHANGED <<outer, others, built, endpoints, h, svcIn>>

CallCount ==
    /\ svcOp = "none"
    /\ svcOp' = "Count"
    /\ svcOut' = [svcOut EXCEPT !.n = Count(Flatten(svcIn))]
    /\ UNCHANGED <<outer, others, built, endpoints, h, svcIn>>

CallUppercaseEndpoint ==
    /\ svcOp = "none"
    /\ svcOp' = "UppercaseEndpoint"
    /\ LET r == UppercaseEndpoint([S |-> Flatten(svcIn)])
       IN  svcOut' = [svcOut EXCEPT !.resp = r.resp, !.err = r.err]
    /\ UNCHANGED <<outer, others, built, endpoints, h, svcIn>>

CallCountEndpoint ==
    /\ svcOp = "none"
    /\ svcOp' = "CountEndpoint"
    /\ LET r == CountEndpoint([S |-> Flatten(svcIn)])
       IN  svcOut' = [svcOut EXCEPT !.resp = r.resp, !.err = r.err]
    /\ UNCHANGED <<outer, others, built, endpoints, h, svcIn>>

SvcNext == CallUppercase \/ CallCount \/ CallUppercaseEndpoint \/ CallCountEndpoint

SvcSpec == SvcInit /\ [][SvcNext]_vars

(***************************************************************************)
(* Reference semantics used by the properties.                             *)
(***************************************************************************)
IsPrefix(s, t) == Len(s) =< Len(t) /\ SubSeq(t, 1, Len(s)) = s

Reverse(s) == [i \in 1..Len(s) |-> s[Len(s) + 1 - i]]

Occurrences(log, e) == Cardinality({ i \in 1..Len(log) : log[i] = e })

\* The invocation of the registered endpoint has returned to the handler.
Complete(r) ==
    /\ h[r].calls.ep > 0
    /\ \/ h[r].pc = "done"
       \/ h[r].pc = "unwind" /\ h[r].stack = <<>>

AllAnnotate(ms) == \A i \in 1..Len(ms) : ms[i].kind = "annotate"

\* pre-markers first to last, the endpoint, post-markers last to first.
Onion(ms, b) ==
    [i \in 1..Len(ms) |-> Ev("pre", ms[i].label, <<>>)]
    \o <<Ev("run", b, <<>>)>>
    \o Reverse([i \in 1..Len(ms) |-> Ev("post", ms[i].label, <<>>)])

\* The events of one call of the nested wrapping m1(m2(...(mn(E))...)).
RECURSIVE NestedTrace(_, _, _)
NestedTrace(ms, b, request) ==
    IF ms = <<>> THEN <<Ev("run", b, <<>>)>>
    ELSE LET m == Head(ms)
             inner == NestedTrace(Tail(ms), b, request)
         IN  CASE m.kind = "annotate" ->
                    <<Ev("pre", m.label, <<>>)>> \o inner \o <<Ev("post", m.label, <<>>)>>
               [] m.kind = "logIt" -> <<Ev("req", "", request.S)>> \o inner
               [] m.kind = "deny"  -> <<>>

\* The result of one call of the nested wrapping m1(m2(...(mn(E))...)).
RECURSIVE NestedResult(_, _, _)
NestedResult(ms, b, request) ==
    IF ms = <<>> THEN BaseApply(b, request)
    ELSE IF Head(ms).kind = "deny" THEN [resp |-> ZeroResp(b), err |-> ErrDenied]
    ELSE NestedResult(Tail(ms), b, request)

\* The markers still open after a log: pre pushes, post must close the
\* innermost open marker; <<"bad">> if a post closes anything else.
RECURSIVE OpenMarkers(_, _)
OpenMarkers(log, open) ==
    IF log = <<>> THEN open
    ELSE LET e == Head(log)
         IN  CASE e.ev = "pre"  -> OpenMarkers(Tail(log), <<e.label>> \o open)
               [] e.ev = "post" ->
                    IF open # <<>> /\ Head(open) = e.label
                    THEN OpenMarkers(Tail(log), Tail(open))
                    ELSE <<"bad">>
               [] OTHER -> OpenMarkers(Tail(log), open)

\* The middleware of a chain that a call reaches: all up to the first that
\* does not call next.
RECURSIVE Reached(_)
Reached(ms) ==
    IF ms = <<>> THEN <<>>
    ELSE IF Head(ms).kind = "deny" THEN <<Head(ms)>>
    ELSE <<Head(ms)>> \o Reached(Tail(ms))

\* The response body of a request handled with no other request around:
\* decode, the nested endpoint, encode, each once and in that order.
HandledAlone(rt, wire, f) ==
    LET d == DecodeRequest(wire)
        e == endpoints[rt]
        res == NestedResult(e.wraps, e.base, d.request)
        enc == EncodeResponse(res.resp)
    IN  IF d.err # Nil THEN ErrText(d.err)
        ELSE IF res.err # Nil THEN ErrText(res.err)
        ELSE IF f = "none" THEN enc
        ELSE Accepted(f, enc) \o ErrText(ErrWrite)

\* The upper-case form of each character drawn for inputs.
UpperChar(c) ==
    CASE c = <<97>>       -> <<65>>
      [] c = <<195, 169>> -> <<195, 137>>
      [] OTHER            -> c

UpperText(cs) == Flatten([i \in 1..Len(cs) |-> UpperChar(cs[i])])

(***************************************************************************)
(* Properties.                                                             *)
(***************************************************************************)

\* C1: with pass-through (annotate) middleware only, one call of
\* Chain(A, B, C)(E) logs A pre, B pre, C pre, E (once), C post, B post,
\* A post, and every log on the way is a prefix of that.
ChainOnionOrder ==
    \A r \in Slots :
        (built /\ AllAnnotate(<<outer>> \o others) /\ h[r].calls.ep > 0) =>
            LET want == Onion(<<outer>> \o others, InnerOf(h[r].route).base)
            IN  /\ IsPrefix(h[r].log, want)
                /\ Complete(r) => h[r].log = want

ChainOnionOrderWitness ==
    /\ outer = Annotate("first")
    /\ others = <<Annotate("second"), Annotate("third")>>
    /\ Complete(1)
    /\ Len(h[1].log) = 7
    /\ h[1].log[4].ev = "run"

\* C2: for a non-empty s, Uppercase(s) is the character-wise upper-case
\* form of s with a nil error, and the uppercase endpoint answers with that
\* form in V, an empty Err and a nil error.
UppercaseNonEmpty ==
    /\ (svcOp = "Uppercase" /\ svcIn # <<>>) =>
          svcOut.v = UpperText(svcIn) /\ svcOut.err = <<>>
    /\ (svcOp = "UppercaseEndpoint" /\ svcIn # <<>>) =>
          /\ svcOut.resp.V = UpperText(svcIn)
          /\ svcOut.resp.Err = <<>>
          /\ svcOut.err = <<>>

UppercaseNonEmptyWitness ==
    /\ svcOp = "UppercaseEndpoint"
    /\ svcIn = << <<97>>, <<195, 169>> >>
    /\ svcOut.resp.V = <<65, 195, 137>>

\* C3: the uppercase endpoint never returns an error; for the empty input
\* the service returns ("", "Empty string") and the endpoint V = "" and
\* Err = "Empty string"; Err is non-empty exactly for the empty input.
UppercaseEmptyIsBusinessError ==
    /\ svcOp = "UppercaseEndpoint" =>
          /\ svcOut.err = <<>>
          /\ (svcOut.resp.Err # <<>>) <=> (svcIn = <<>>)
          /\ svcIn = <<>> =>
                /\ svcOut.resp.V = <<>>
                /\ svcOut.resp.Err = <<69, 109, 112, 116, 121, 32, 115, 116, 114, 105, 110, 103>>
    /\ (svcOp = "Uppercase" /\ svcIn = <<>>) =>
          /\ svcOut.v = <<>>
          /\ svcOut.err = <<69, 109, 112, 116, 121, 32, 115, 116, 114, 105, 110, 103>>

UppercaseEmptyWitness ==
    /\ svcOp = "UppercaseEndpoint"
    /\ svcIn = <<>>
    /\ svcOut.resp.Err # <<>>

\* C4 (as claimed): Count(s) is the number of characters of s, also when a
\* character takes more than one byte.
CountIsCharacterCount ==
    /\ svcOp = "Count" => svcOut.n = Len(svcIn)
    /\ svcOp = "CountEndpoint" => svcOut.resp.N = Len(svcIn) /\ svcOut.err = <<>>

\* C5: when decode fails the handler writes "err: <message>" and returns:
\* the endpoint, its middleware and encode never run; the endpoint is
\* invoked only after a successful decode.
DecodeErrorShortCircuits ==
    \A r \in Slots :
        /\ h[r].decErr # <<>> =>
              /\ h[r].calls.ep = 0
              /\ h[r].calls.enc = 0
              /\ h[r].log = <<>>
              /\ h[r].pc = "done"
              /\ h[r].body = <<101, 114, 114, 58, 32>> \o h[r].decErr
        /\ h[r].calls.ep > 0 => h[r].calls.dec = 1 /\ h[r].wire.kind = "json"
        /\ h[r].wire.kind = "malformed" => h[r].calls.ep = 0 /\ h[r].log = <<>>

DecodeErrorWitness ==
    /\ h[1].route = "/uppercase"
    /\ h[1].wire.kind = "malformed"
    /\ h[1].pc = "done"
    /\ h[1].body = <<101, 114, 114, 58, 32>> \o ErrUnexpectedEOF

\* C6: a call through annotate(label) logs "<label> pre" before anything
\* of the wrapped endpoint and "<label> post" once after it, also when the
\* wrapped endpoint returns an error: markers nest, and once the call has
\* returned every pre has its post.
AnnotatePostGuaranteed ==
    \A r \in Slots :
        (built /\ h[r].calls.ep > 0) =>
            LET ms == Reached(<<outer>> \o others)
            IN  /\ OpenMarkers(h[r].log, <<>>) # <<"bad">>
                /\ \A l \in Labels :
                      Occurrences(h[r].log, Ev("post", l, <<>>))
                          =< Occurrences(h[r].log, Ev("pre", l, <<>>))
                /\ (outer.kind = "annotate" /\ h[r].log # <<>>) =>
                      h[r].log[1] = Ev("pre", outer.label, <<>>)
                /\ Complete(r) =>
                      /\ OpenMarkers(h[r].log, <<>>) = <<>>
                      /\ outer.kind = "annotate" => h[r].log # <<>>
                      /\ \A l \in Labels :
                            /\ Occurrences(h[r].log, Ev("pre", l, <<>>))
                                 = Cardinality({ i \in 1..Len(ms) : ms[i] = Annotate(l) })
                            /\ Occurrences(h[r].log, Ev("post", l, <<>>))
                                 = Occurrences(h[r].log, Ev("pre", l, <<>>))
                      /\ outer.kind = "annotate" =>
                            h[r].log[Len(h[r].log)] = Ev("post", outer.label, <<>>)

AnnotatePostWitness ==
    /\ outer = Annotate("first")
    /\ others = <<LogIt, Annotate("second")>>
    /\ h[1].route = "/fail"
    /\ h[1].pc = "done"
    /\ h[1].ret.err = ErrFailed
    /\ h[1].log[Len(h[1].log)] = Ev("post", "first", <<>>)

\* C7 (as claimed): decode, endpoint and encode run at most once per
\* request and the body written is the encoded response alone or one
\* "err: <message>" alone, also when encode fails after writing a part.
NoPartialResponse ==
    \A r \in Slots :
        /\ h[r].calls.dec =< 1 /\ h[r].calls.ep =< 1 /\ h[r].calls.enc =< 1
        /\ h[r].pc = "done" =>
              \/ h[r].body = EncodeResponse(h[r].ret.resp)
              \/ \E e \in {h[r].decErr, h[r].ret.err, ErrWrite} :
                    e # <<>> /\ h[r].body = <<101, 114, 114, 58, 32>> \o e

\* C8: two requests to the same route with the same body decode, and are
\* answered by the endpoint, alike, whatever was handled before or between
\* them; met by the same behaviour of their response writers, their
\* response bodies are byte-identical.
IdenticalRequestsIdenticalResponses ==
    \A r1, r2 \in Slots :
        ( /\ h[r1].pc = "done" /\ h[r2].pc = "done"
          /\ h[r1].route = h[r2].route
          /\ h[r1].wire = h[r2].wire ) =>
            /\ h[r1].decErr = h[r2].decErr
            /\ h[r1].ret = h[r2].ret
            /\ h[r1].wfault = h[r2].wfault => h[r1].body = h[r2].body

IdenticalRequestsWitness ==
    /\ h[1].pc = "done" /\ h[2].pc = "done"
    /\ h[1].route = "/count" /\ h[2].route = "/count"
    /\ h[1].wire = [kind |-> "json", s |-> <<97, 195, 169>>]
    /\ h[2].wire = h[1].wire
    /\ h[1].wfault = "none" /\ h[2].wfault = "none"
    /\ h[1].body = h[2].body

\* C9: under any interleaving each finished request has the response it
\* would have had alone, and a request in flight can always take its next
\* step, whatever the other requests did or failed at.
ConcurrentRequestsIndependent ==
    \A r \in Slots :
        /\ h[r].pc = "done" =>
              h[r].body = HandledAlone(h[r].route, h[r].wire, h[r].wfault)
        /\ h[r].pc \notin {"idle", "done"} => ENABLED Step(r)

ConcurrentRequestsWitness ==
    /\ h[1].pc = "done" /\ h[1].decErr # <<>>
    /\ h[2].pc = "done" /\ h[2].route = "/uppercase" /\ h[2].wfault = "none"
    /\ h[2].body = EncodeResponse(UppercaseResponse(<<65, 195, 137>>, <<>>))

\* C10: Chain(outer, m1, ..., mn)(E) is the nested wrapping
\* outer(m1(...(mn(E))...)): the endpoint built is that wrapping, for each
\* endpoint the chain is applied to, and a call of it logs and returns what
\* the nested wrapping does, also for n = 0 and for a middleware that does
\* not call next.
ChainIsNestedWrapping ==
    /\ built =>
          \A rt \in DOMAIN endpoints :
              /\ endpoints[rt].wraps = <<outer>> \o others
              /\ endpoints[rt].base = InnerOf(rt).base
    /\ \A r \in Slots :
          (built /\ h[r].calls.ep > 0) =>
              LET ms == <<outer>> \o others
                  b == InnerOf(h[r].route).base
              IN  /\ IsPrefix(h[r].log, NestedTrace(ms, b, h[r].request))
                  /\ Complete(r) =>
                        /\ h[r].log = NestedTrace(ms, b, h[r].request)
                        /\ h[r].ret = NestedResult(ms, b, h[r].request)

ChainIsNestedWitness ==
    /\ outer = Annotate("first")
    /\ others = <<Deny, Annotate("second")>>
    /\ h[1].route = "/uppercase"
    /\ Complete(1)
    /\ h[1].log = <<Ev("pre", "first", <<>>), Ev("post", "first", <<>>)>>
    /\ h[1].ret.err = ErrDenied

====
